---- MODULE Spec2Model ----
(***************************************************************************)
(* Model of src/app.py, the Quant Technical Indicators Engine: the          *)
(* indicator functions SMA, EMA, RSI, MACD and Bollinger (lines 79-107),    *)
(* the CALCULATIONS block that adds their columns to the table df (lines    *)
(* 112-129) and the SIGNAL LOGIC block (lines 134-138).                     *)
(*                                                                          *)
(* Numbers.  The script computes on float64.  A number is modelled as an    *)
(* exact fraction [n |-> numerator, d |-> denominator] in lowest terms      *)
(* with d > 0, extended with the three IEEE values the script can           *)
(* produce: NaN = 0/0, +inf = 1/0 and -inf = -1/0.  Rounding and the sign   *)
(* of zero are not modelled.                                                *)
(*                                                                          *)
(* Indices.  A pandas Series of length L is a sequence over 1..L: the row   *)
(* the script calls i is row i+1 here.                                      *)
(*                                                                          *)
(* Library calls.  series.rolling(n), series.ewm(span=n, adjust=False),     *)
(* diff and clip are pandas calls; they are modelled by what pandas         *)
(* computes for them (window validation, min_periods, the treatment of      *)
(* NaN), at the line of app.py that makes the call.                         *)
(***************************************************************************)
EXTENDS Integers, Sequences, FiniteSets, TLC

VARIABLES
    price,  \* price = df["Close"], line 74
    cfg,    \* the sidebar's values, lines 36-59
    df,     \* the table: column name -> series
    pc      \* the block of the script that runs next

vars == <<price, cfg, df, pc>>

----------------------------------------------------------------------------
(* Bounds of the model *)

\* rows of the price series
MaxLen == 3

\* prices are 1..MaxPrice
MaxPrice == 2

----------------------------------------------------------------------------
(* float64 arithmetic, exact *)

Abs(x) == IF x < 0 THEN -x ELSE x

Sign(x) == IF x > 0 THEN 1 ELSE IF x < 0 THEN -1 ELSE 0

RECURSIVE Gcd(_, _)
Gcd(a, b) == IF b = 0 THEN a ELSE Gcd(b, a % b)

\* the number n/d, in lowest terms; n/0 is NaN or an infinity
Num(n, d) ==
    IF d = 0 THEN [n |-> Sign(n), d |-> 0]
    ELSE LET g == Gcd(Abs(n), Abs(d))
         IN  [n |-> (Sign(d) * n) \div g, d |-> Abs(d) \div g]

Float(k) == [n |-> k, d |-> 1]

NaN == [n |-> 0, d |-> 0]

IsNaN(x) == x.d = 0 /\ x.n = 0

IsInf(x) == x.d = 0 /\ x.n # 0

IsFinite(x) == x.d > 0

FNeg(a) == [n |-> -a.n, d |-> a.d]

FAdd(a, b) ==
    IF IsNaN(a) \/ IsNaN(b) THEN NaN
    ELSE IF IsInf(a) /\ IsInf(b) THEN (IF a.n = b.n THEN a ELSE NaN)
    ELSE IF IsInf(a) THEN a
    ELSE IF IsInf(b) THEN b
    ELSE Num(a.n * b.d + b.n * a.d, a.d * b.d)

FSub(a, b) == FAdd(a, FNeg(b))

FMul(a, b) == Num(a.n * b.n, a.d * b.d)

FDiv(a, b) ==
    IF IsNaN(a) \/ IsNaN(b) THEN NaN
    ELSE IF IsInf(a) THEN (IF IsInf(b) THEN NaN
                           ELSE Num(a.n * (IF b.n < 0 THEN -1 ELSE 1), 0))
    ELSE Num(a.n * b.d, a.d * b.n)

\* a < b and a > b on floats: every comparison with NaN is False
FLt(a, b) ==
    IF IsNaN(a) \/ IsNaN(b) THEN FALSE
    ELSE IF IsInf(a) /\ IsInf(b) THEN a.n < b.n
    ELSE a.n * b.d < b.n * a.d

FGt(a, b) == FLt(b, a)

FMax(a, b) == IF FLt(a, b) THEN b ELSE a

FMin(a, b) == IF FLt(b, a) THEN b ELSE a

----------------------------------------------------------------------------
(* pandas: rolling windows *)

\* series.rolling(n) raises ValueError for a negative window
RollingRaises(n) == n < 0

\* the running sum and count of the observations in rows i-n+1..i: each row
\* adds the entering value and removes the leaving one, NaN skipped
RECURSIVE RollAcc(_, _, _)
RollAcc(s, n, i) ==
    IF i = 0 THEN [sum |-> Float(0), nobs |-> 0]
    ELSE LET prev == RollAcc(s, n, i - 1)
             add  == IF IsNaN(s[i]) THEN prev
                     ELSE [sum |-> FAdd(prev.sum, s[i]), nobs |-> prev.nobs + 1]
             out  == i - n
         IN  IF out >= 1 /\ ~IsNaN(s[out])
             THEN [sum |-> FSub(add.sum, s[out]), nobs |-> add.nobs - 1]
             ELSE add

\* series.rolling(n).mean(): min_periods is the window
RollingMean(s, n) ==
    [i \in 1..Len(s) |->
        LET a == RollAcc(s, n, i)
        IN  IF a.nobs >= n /\ a.nobs > 0 THEN FDiv(a.sum, Float(a.nobs)) ELSE NaN]

\* the sum of (s[j] - m)^2 over the observations in rows lo..hi
RECURSIVE SumSqDev(_, _, _, _)
SumSqDev(s, m, lo, hi) ==
    IF hi < lo THEN Float(0)
    ELSE LET rest == SumSqDev(s, m, lo, hi - 1)
         IN  IF IsNaN(s[hi]) THEN rest
             ELSE FAdd(rest, FMul(FSub(s[hi], m), FSub(s[hi], m)))

\* the square of series.rolling(n).std(): the sample variance (ddof = 1) of
\* the window, NaN while the window holds fewer than n or fewer than two
\* observations
RollingVar(s, n) ==
    [i \in 1..Len(s) |->
        LET a  == RollAcc(s, n, i)
            lo == IF i - n + 1 < 1 THEN 1 ELSE i - n + 1
        IN  IF a.nobs >= n /\ a.nobs > 1
            THEN FDiv(SumSqDev(s, FDiv(a.sum, Float(a.nobs)), lo, i), Float(a.nobs - 1))
            ELSE NaN]

----------------------------------------------------------------------------
(* pandas: exponentially weighted mean *)

\* series.ewm(span=n) raises ValueError unless span >= 1
EwmRaises(span) == span < 1

\* alpha taken from the centre of mass: 1 / (span + 1)
Alpha_FromCom(span) == Num(1, span + 1)

\* alpha = 2 / (span + 1)
Alpha(span) == Num(2, span + 1)

\* ewm(ignore_na=True): the past is not decayed over an undefined row
RECURSIVE EwmAcc_IgnoreNa(_, _, _)
EwmAcc_IgnoreNa(s, span, i) ==
    IF i = 1 THEN [weighted |-> s[1], old_wt |-> Float(1)]
    ELSE LET p   == EwmAcc_IgnoreNa(s, span, i - 1)
             cur == s[i]
             a   == Num(2, span + 1)
         IN  IF IsNaN(cur) THEN p
             ELSE IF IsNaN(p.weighted) THEN [weighted |-> cur, old_wt |-> Float(1)]
             ELSE [weighted |-> FAdd(FMul(FSub(Float(1), a), p.weighted), FMul(a, cur)),
                   old_wt |-> Float(1)]

\* one row of ewm(adjust=False, ignore_na=False).mean(): from the state p
\* (the weighted mean and the weight of the past) and the row's value cur
EwmStep(p, cur, a) ==
    IF IsNaN(p.weighted)
    THEN IF IsNaN(cur) THEN p ELSE [weighted |-> cur, old_wt |-> p.old_wt]
    ELSE IF IsNaN(cur)
         THEN [weighted |-> p.weighted,
               old_wt |-> FMul(p.old_wt, FSub(Float(1), a))]
         ELSE [weighted |->
                   FDiv(FAdd(FMul(FMul(p.old_wt, FSub(Float(1), a)), p.weighted),
                             FMul(a, cur)),
                        FAdd(FMul(p.old_wt, FSub(Float(1), a)), a)),
               old_wt |-> Float(1)]

\* the state of the exponentially weighted mean after row i
RECURSIVE EwmAcc(_, _, _)
EwmAcc(s, span, i) ==
    IF i = 1 THEN [weighted |-> s[1], old_wt |-> Float(1)]
    ELSE EwmStep(EwmAcc(s, span, i - 1), s[i], Alpha(span))

----------------------------------------------------------------------------
(* INDICATOR FUNCTIONS *)

\* series.rolling(n, center=True).mean(): the window reaches past row i
SMA_Centered(series, n) ==
    LET m == RollingMean(series, n)
        h == n \div 2
    IN  [i \in 1..Len(series) |-> IF i + h <= Len(series) THEN m[i + h] ELSE NaN]

\* series.rolling(n, min_periods=1).mean(): no warm-up gap
SMA_MinPeriods1(series, n) ==
    [i \in 1..Len(series) |->
        LET a == RollAcc(series, n, i)
        IN  IF a.nobs > 0 THEN FDiv(a.sum, Float(a.nobs)) ELSE NaN]

SMA(series, n) == RollingMean(series, n)

EMA(series, n) == [i \in 1..Len(series) |-> EwmAcc(series, n, i).weighted]

\* series.diff()
Diff(series) ==
    [i \in 1..Len(series) |-> IF i = 1 THEN NaN ELSE FSub(series[i], series[i - 1])]

\* delta.clip(lower=0)
Gain(delta) ==
    [i \in 1..Len(delta) |-> IF IsNaN(delta[i]) THEN NaN ELSE FMax(delta[i], Float(0))]

\* -delta.clip(upper=0)
Loss(delta) ==
    [i \in 1..Len(delta) |-> IF IsNaN(delta[i]) THEN NaN ELSE FNeg(FMin(delta[i], Float(0)))]

\* 100 - 100 / rs: the 1 + of the denominator forgotten
RSI_NoOnePlus(series, n) ==
    LET delta    == Diff(series)
        avg_gain == RollingMean(Gain(delta), n)
        avg_loss == RollingMean(Loss(delta), n)
    IN  [i \in 1..Len(series) |->
            LET rs == FDiv(avg_gain[i], avg_loss[i])
            IN  FSub(Float(100), FDiv(Float(100), rs))]

\* the undefined values of the result filled with the neutral level 50
RSI_FillNa(series, n) ==
    LET delta    == Diff(series)
        avg_gain == RollingMean(Gain(delta), n)
        avg_loss == RollingMean(Loss(delta), n)
    IN  [i \in 1..Len(series) |->
            LET rs == FDiv(avg_gain[i], avg_loss[i])
                v  == FSub(Float(100), FDiv(Float(100), FAdd(Float(1), rs)))
            IN  IF IsNaN(v) THEN Float(50) ELSE v]

RSI(series, n) ==
    LET delta    == Diff(series)
        avg_gain == RollingMean(Gain(delta), n)
        avg_loss == RollingMean(Loss(delta), n)
    IN  [i \in 1..Len(series) |->
            LET rs == FDiv(avg_gain[i], avg_loss[i])
            IN  FSub(Float(100), FDiv(Float(100), FAdd(Float(1), rs)))]

MACD(series, fast, slow, signal) ==
    LET ef          == EMA(series, fast)
        es          == EMA(series, slow)
        macd        == [i \in 1..Len(series) |-> FSub(ef[i], es[i])]
        signal_line == EMA(macd, signal)
        hist        == [i \in 1..Len(series) |-> FSub(macd[i], signal_line[i])]
    IN  [macd |-> macd, signal_line |-> signal_line, hist |-> hist]

\* k * std is not a fraction: a band is kept as its three parts and stands
\* for mid + k * sqrt(var); it is NaN when mid or var is
NaNBand == [mid |-> NaN, k |-> 0, var |-> NaN]

Band(mid, k, var) ==
    IF IsNaN(mid) \/ IsNaN(var) THEN NaNBand ELSE [mid |-> mid, k |-> k, var |-> var]

Bollinger(series, n, k) ==
    LET mid == SMA(series, n)
        var == RollingVar(series, n)
    IN  [upper |-> [i \in 1..Len(series) |-> Band(mid[i], k, var[i])],
         mid   |-> mid,
         lower |-> [i \in 1..Len(series) |-> Band(mid[i], -k, var[i])]]

----------------------------------------------------------------------------
(* The sidebar *)

\* The sliders of lines 47-59 keep every window in 5..200 and the two RSI
\* levels apart (10..40 below 60..90).  The indicator functions and the two
\* blocks below take any integer, and the properties are stated for every
\* window and every pair of levels: the parameters are drawn from small sets
\* that hold the values pandas rejects and both orders of the levels, next
\* to windows that fit a series of MaxLen rows.

Indicators == {"sma", "ema", "rsi", "macd", "bb"}

\* a window slider's values: negative (rolling raises), 0 (an empty window),
\* and every window up to the whole series
Windows == (0 - 1)..MaxLen

\* a span slider's values: 0 (ewm raises) and the spans up to MaxLen - 1
Spans == 0..(MaxLen - 1)

\* the RSI levels: the sliders' defaults, in either role
Levels == {30, 70}

\* the Bollinger multipliers
StdDevs == {1, 2}

\* the sidebar as loaded: every indicator on, every window the longest one
\* that leaves the last row of RSI defined
DefaultCfg ==
    [use_sma |-> TRUE, use_ema |-> TRUE, use_rsi |-> TRUE, use_macd |-> TRUE,
     use_bb |-> TRUE,
     sma_window |-> MaxLen - 1, ema_window |-> MaxLen - 1,
     rsi_window |-> MaxLen - 1, rsi_overbought |-> 70, rsi_oversold |-> 30,
     macd_fast |-> 1, macd_slow |-> MaxLen - 1, macd_signal |-> MaxLen - 1,
     bb_window |-> MaxLen - 1, bb_std |-> 2]

Toggled(c, on) ==
    [c EXCEPT !.use_sma = "sma" \in on, !.use_ema = "ema" \in on,
              !.use_rsi = "rsi" \in on, !.use_macd = "macd" \in on,
              !.use_bb = "bb" \in on]

\* the sidebars one move away from the loaded one: one slider of the
\* indicator moved, or its two RSI levels
Tuned(ind) ==
    CASE ind = "sma"  -> {[DefaultCfg EXCEPT !.sma_window = n] : n \in Windows}
      [] ind = "ema"  -> {[DefaultCfg EXCEPT !.ema_window = n] : n \in Spans}
      [] ind = "rsi"  -> {[DefaultCfg EXCEPT !.rsi_window = n] : n \in Windows}
                         \cup {[DefaultCfg EXCEPT !.rsi_oversold = lo,
                                                  !.rsi_overbought = hi] :
                                  lo \in Levels, hi \in Levels}
      [] ind = "macd" -> {[DefaultCfg EXCEPT !.macd_fast = n] : n \in Spans}
                         \cup {[DefaultCfg EXCEPT !.macd_slow = n] : n \in Spans}
                         \cup {[DefaultCfg EXCEPT !.macd_signal = n] : n \in Spans}
      [] ind = "bb"   -> {[DefaultCfg EXCEPT !.bb_window = n] : n \in Windows}
                         \cup {[DefaultCfg EXCEPT !.bb_std = k] : k \in StdDevs}

\* the sidebars the model runs the script on: any set of indicators ticked,
\* and at most one move among the sliders of the ticked ones
Configs ==
    UNION {{Toggled(c, on) : c \in {DefaultCfg} \cup UNION {Tuned(ind) : ind \in on}} :
              on \in SUBSET Indicators}

\* the Close column: MaxLen rows of prices 1..MaxPrice
PriceSeries == [1..MaxLen -> {Float(p) : p \in 1..MaxPrice}]

----------------------------------------------------------------------------
(* The table *)

Columns(t) == DOMAIN t

SetColumn(t, name, series) ==
    [c \in Columns(t) \cup {name} |-> IF c = name THEN series ELSE t[c]]

Rows == 1..Len(price)

----------------------------------------------------------------------------
(* SIGNAL LOGIC *)

\* df["Signal"] = "HOLD"
SignalHold(t) == SetColumn(t, "Signal", [i \in 1..Len(t["Close"]) |-> "HOLD"])

\* df["RSI"].fillna(0) < rsi_oversold: an undefined RSI counts as low
SignalBuy_FillNa(t, oversold) ==
    SetColumn(t, "Signal",
        [i \in 1..Len(t["Close"]) |->
            IF IsNaN(t["RSI"][i]) \/ FLt(t["RSI"][i], Float(oversold))
            THEN "BUY" ELSE t["Signal"][i]])

\* df.loc[df["RSI"] < rsi_oversold, "Signal"] = "BUY"
SignalBuy(t, oversold) ==
    SetColumn(t, "Signal",
        [i \in 1..Len(t["Close"]) |->
            IF FLt(t["RSI"][i], Float(oversold)) THEN "BUY" ELSE t["Signal"][i]])

\* SELL written only where BUY was not: an else-if
SignalSell_ElseIf(t, overbought) ==
    SetColumn(t, "Signal",
        [i \in 1..Len(t["Close"]) |->
            IF FGt(t["RSI"][i], Float(overbought)) /\ t["Signal"][i] # "BUY"
            THEN "SELL" ELSE t["Signal"][i]])

\* df.loc[df["RSI"] > rsi_overbought, "Signal"] = "SELL"
SignalSell(t, overbought) ==
    SetColumn(t, "Signal",
        [i \in 1..Len(t["Close"]) |->
            IF FGt(t["RSI"][i], Float(overbought)) THEN "SELL" ELSE t["Signal"][i]])

----------------------------------------------------------------------------
(* CALCULATIONS: each block as a function of the table *)

\* if use_sma: df["SMA"] = SMA(price, sma_window)
RaisesSMA(c) == c.use_sma /\ RollingRaises(c.sma_window)

\* the SMA column added whether or not the box is ticked
AddSMA_Always(t, p, c) == SetColumn(t, "SMA", SMA(p, c.sma_window))

AddSMA(t, p, c) ==
    IF c.use_sma THEN SetColumn(t, "SMA", SMA(p, c.sma_window)) ELSE t

\* if use_ema: df["EMA"] = EMA(price, ema_window)
RaisesEMA(c) == c.use_ema /\ EwmRaises(c.ema_window)

AddEMA(t, p, c) ==
    IF c.use_ema THEN SetColumn(t, "EMA", EMA(p, c.ema_window)) ELSE t

\* if use_rsi: df["RSI"] = RSI(price, rsi_window)
RaisesRSI(c) == c.use_rsi /\ RollingRaises(c.rsi_window)

AddRSI(t, p, c) ==
    IF c.use_rsi THEN SetColumn(t, "RSI", RSI(p, c.rsi_window)) ELSE t

\* if use_macd: df["MACD"], df["MACD_Signal"], df["MACD_Hist"] = MACD(...)
RaisesMACD(c) ==
    c.use_macd /\ (\/ EwmRaises(c.macd_fast)
                   \/ EwmRaises(c.macd_slow)
                   \/ EwmRaises(c.macd_signal))

AddMACD(t, p, c) ==
    IF c.use_macd
    THEN LET m == MACD(p, c.macd_fast, c.macd_slow, c.macd_signal)
         IN  SetColumn(SetColumn(SetColumn(t, "MACD", m.macd),
                                 "MACD_Signal", m.signal_line),
                       "MACD_Hist", m.hist)
    ELSE t

\* if use_bb: df["BB_Upper"], df["BB_Middle"], df["BB_Lower"] = Bollinger(...)
RaisesBB(c) == c.use_bb /\ RollingRaises(c.bb_window)

AddBB(t, p, c) ==
    IF c.use_bb
    THEN LET b == Bollinger(p, c.bb_window, c.bb_std)
         IN  SetColumn(SetColumn(SetColumn(t, "BB_Upper", b.upper),
                                 "BB_Middle", b.mid),
                       "BB_Lower", b.lower)
    ELSE t

\* if use_rsi: the BUY assignment, line 137
AddBuy(t, c) == IF c.use_rsi THEN SignalBuy(t, c.rsi_oversold) ELSE t

\* if use_rsi: the SELL assignment, line 138
AddSell(t, c) == IF c.use_rsi THEN SignalSell(t, c.rsi_overbought) ELSE t

\* the table the script ends with on the prices p under the sidebar c: the
\* blocks in the script's order, up to the first one that raises
Pipeline(p, c) ==
    LET t0 == [col \in {"Close"} |-> p]
        t1 == AddSMA(t0, p, c)
        t2 == AddEMA(t1, p, c)
        t3 == AddRSI(t2, p, c)
        t4 == AddMACD(t3, p, c)
        t5 == AddBB(t4, p, c)
    IN  IF RaisesSMA(c) THEN t0
        ELSE IF RaisesEMA(c) THEN t1
        ELSE IF RaisesRSI(c) THEN t2
        ELSE IF RaisesMACD(c) THEN t3
        ELSE IF RaisesBB(c) THEN t4
        ELSE AddSell(AddBuy(SignalHold(t5), c), c)

----------------------------------------------------------------------------
(* The script, block by block *)

Init ==
    /\ price \in PriceSeries
    /\ cfg \in Configs
    /\ df = [col \in {"Close"} |-> price]
    /\ pc = "sma"

\* an exception ends the run: the assignment it interrupts does not happen
\* and no later block runs
Step(raises, table, next) ==
    /\ IF raises THEN df' = df /\ pc' = "error"
                 ELSE df' = table /\ pc' = next
    /\ UNCHANGED <<price, cfg>>

CalcSMA == pc = "sma" /\ Step(RaisesSMA(cfg), AddSMA(df, price, cfg), "ema")

CalcEMA == pc = "ema" /\ Step(RaisesEMA(cfg), AddEMA(df, price, cfg), "rsi")

CalcRSI == pc = "rsi" /\ Step(RaisesRSI(cfg), AddRSI(df, price, cfg), "macd")

CalcMACD == pc = "macd" /\ Step(RaisesMACD(cfg), AddMACD(df, price, cfg), "bb")

CalcBB == pc = "bb" /\ Step(RaisesBB(cfg), AddBB(df, price, cfg), "signal")

SetHold == pc = "signal" /\ Step(FALSE, SignalHold(df), "buy")

SetBuy == pc = "buy" /\ Step(FALSE, AddBuy(df, cfg), "sell")

SetSell == pc = "sell" /\ Step(FALSE, AddSell(df, cfg), "done")

Next ==
    \/ CalcSMA
    \/ CalcEMA
    \/ CalcRSI
    \/ CalcMACD
    \/ CalcBB
    \/ SetHold
    \/ SetBuy
    \/ SetSell

Spec == Init /\ [][Next]_vars

\* the script has run to its end, or an exception has ended it
Ended == pc \in {"done", "error"}

----------------------------------------------------------------------------
(* Other starts of the script *)

\* a series whose entries may be undefined
GapSeries == [1..MaxLen -> {Float(p) : p \in 1..MaxPrice} \cup {NaN}]

\* EMA and MACD alone, over a Close column with undefined entries
InitGaps ==
    /\ price \in GapSeries
    /\ cfg \in {Toggled(c, {"ema", "macd"}) : c \in Tuned("ema") \cup Tuned("macd")}
    /\ df = [col \in {"Close"} |-> price]
    /\ pc = "sma"

SpecGaps == InitGaps /\ [][Next]_vars

\* every indicator ticked, and at most one move among the sliders
InitAllOn ==
    /\ price \in PriceSeries
    /\ cfg \in {DefaultCfg} \cup UNION {Tuned(ind) : ind \in Indicators}
    /\ df = [col \in {"Close"} |-> price]
    /\ pc = "sma"

SpecAllOn == InitAllOn /\ [][Next]_vars

----------------------------------------------------------------------------
(* What the properties below are stated in *)

Has(col) == col \in Columns(df)

\* the price in row i, an integer
Px(i) == price[i].n

\* price[lo] + ... + price[hi]
RECURSIVE WindowSum(_, _)
WindowSum(lo, hi) == IF hi < lo THEN 0 ELSE WindowSum(lo, hi - 1) + Px(hi)

\* the rises, and the falls, of the price over the rows lo..hi
RECURSIVE GainSum(_, _)
GainSum(lo, hi) ==
    IF hi < lo THEN 0
    ELSE GainSum(lo, hi - 1) + (IF Px(hi) > Px(hi - 1) THEN Px(hi) - Px(hi - 1) ELSE 0)

RECURSIVE LossSum(_, _)
LossSum(lo, hi) ==
    IF hi < lo THEN 0
    ELSE LossSum(lo, hi - 1) + (IF Px(hi) < Px(hi - 1) THEN Px(hi - 1) - Px(hi) ELSE 0)

\* q and price hold the same prices in the rows 1..i
AgreeUpTo(q, i) == \A j \in 1..i : q[j] = price[j]

----------------------------------------------------------------------------
(* Properties *)

\* C1: in every table that has the RSI and Signal columns, whatever the
\* window and the two levels, a row whose RSI is undefined has the signal
\* HOLD: neither assignment of the signal block writes on it.
C1_UndefinedRsiHolds ==
    (Has("RSI") /\ Has("Signal")) =>
        \A i \in Rows : IsNaN(df["RSI"][i]) => df["Signal"][i] = "HOLD"

\* the run has ended, a flat run after the warm-up left RSI undefined in one
\* row, and another row got BUY or SELL
C1_Witness ==
    /\ pc = "done" /\ cfg.use_rsi /\ cfg.rsi_window >= 1
    /\ \E i \in Rows : i > cfg.rsi_window /\ IsNaN(df["RSI"][i])
    /\ \E j \in Rows : df["Signal"][j] # "HOLD"

C3_NoLookAhead ==
    Ended =>
        \A q \in PriceSeries :
            q[1] = price[1] =>
                LET t == Pipeline(q, cfg)
                IN  \A i \in Rows :
                        AgreeUpTo(q, i) =>
                            \A col \in Columns(df) : t[col][i] = df[col][i]

\* the run has ended with every indicator on, and a series that agrees with
\* price up to the row before the last gives another SMA in the last row
C3_Witness ==
    /\ pc = "done"
    /\ cfg.use_sma /\ cfg.use_ema /\ cfg.use_rsi /\ cfg.use_macd /\ cfg.use_bb
    /\ \E q \in PriceSeries :
           /\ AgreeUpTo(q, MaxLen - 1)
           /\ ~IsNaN(df["SMA"][MaxLen - 1])
           /\ Pipeline(q, cfg)["SMA"][MaxLen] # df["SMA"][MaxLen]

\* C4: for a window n >= 1 the SMA column has one value per price row, is
\* undefined in the rows before row n, and from row n on is the sum of the n
\* prices of the rows i-n+1..i divided by n.
C4_SmaIsWindowMean ==
    (Has("SMA") /\ cfg.sma_window >= 1) =>
        LET n == cfg.sma_window
            m == df["SMA"]
        IN  /\ Len(m) = Len(price)
            /\ \A i \in Rows :
                   IF i < n THEN IsNaN(m[i])
                   ELSE /\ IsFinite(m[i])
                        /\ m[i].n * n = m[i].d * WindowSum(i - n + 1, i)

\* an SMA over the whole series whose one defined value is not an integer
C4_Witness ==
    /\ Has("SMA") /\ cfg.sma_window = MaxLen
    /\ IsNaN(df["SMA"][MaxLen - 1])
    /\ df["SMA"][MaxLen].d > 1

\* C5: for a window n >= 1, wherever RSI is defined it lies in [0, 100], and
\* it is 100 exactly in the rows whose window is full, holds no fall and
\* holds a rise (avgLoss = 0 and avgGain > 0).
C5_RsiBounded ==
    (Has("RSI") /\ cfg.rsi_window >= 1) =>
        LET n == cfg.rsi_window
            r == df["RSI"]
        IN  \A i \in Rows :
                ~IsNaN(r[i]) =>
                    /\ IsFinite(r[i])
                    /\ ~FLt(r[i], Float(0)) /\ ~FGt(r[i], Float(100))
                    /\ r[i] = Float(100) <=>
                           /\ i > n
                           /\ LossSum(i - n + 1, i) = 0
                           /\ GainSum(i - n + 1, i) > 0

\* a window of two rows or more with a rise and no fall: RSI is 100
C5_Witness ==
    /\ Has("RSI") /\ cfg.rsi_window >= 2
    /\ \E i \in Rows : /\ df["RSI"][i] = Float(100)
                       /\ GainSum(i - cfg.rsi_window + 1, i) > 0
                       /\ LossSum(i - cfg.rsi_window + 1, i) = 0

\* C6: for a window n >= 1, RSI is undefined in the first n rows, and in a
\* later row it is undefined exactly when its window holds no rise and no
\* fall (avgGain = avgLoss = 0): the flat run is neither 0 nor 100.
C6_RsiUndefined ==
    (Has("RSI") /\ cfg.rsi_window >= 1) =>
        LET n == cfg.rsi_window
            r == df["RSI"]
        IN  \A i \in Rows :
                IF i <= n THEN IsNaN(r[i])
                ELSE IsNaN(r[i]) <=>
                         /\ GainSum(i - n + 1, i) = 0
                         /\ LossSum(i - n + 1, i) = 0

\* a constant price: RSI is undefined in every row, the rows after the
\* warm-up included
C6_Witness ==
    /\ Has("RSI") /\ cfg.rsi_window >= 1 /\ cfg.rsi_window < MaxLen
    /\ \A i \in Rows : price[i] = price[1] /\ IsNaN(df["RSI"][i])

\* C7: for a span >= 1 the EMA column has one value per price row, all
\* defined: the first is the first price and each later one is
\* alpha * price[i] + (1 - alpha) * EMA[i-1] with alpha = 2 / (span + 1); and
\* the three MACD columns are defined in every row.
C7_EmaRecurrence ==
    /\ (Has("EMA") /\ cfg.ema_window >= 1) =>
           LET a == Num(2, cfg.ema_window + 1)
               e == df["EMA"]
           IN  /\ Len(e) = Len(price)
               /\ e[1] = price[1]
               /\ \A i \in Rows :
                      /\ IsFinite(e[i])
                      /\ i > 1 => e[i] = FAdd(FMul(a, price[i]),
                                              FMul(FSub(Float(1), a), e[i - 1]))
    /\ Has("MACD_Hist") =>
           \A i \in Rows : /\ IsFinite(df["MACD"][i])
                           /\ IsFinite(df["MACD_Signal"][i])
                           /\ IsFinite(df["MACD_Hist"][i])

\* an EMA of span 2 or more that differs from the price in the last row,
\* beside the MACD columns
C7_Witness ==
    /\ Has("EMA") /\ Has("MACD_Hist") /\ cfg.ema_window >= 2
    /\ df["EMA"][MaxLen] # price[MaxLen]
    /\ IsFinite(df["EMA"][1])

\* an enabled indicator has a window <= 0 or a span < 1
InvalidParameter(c) ==
    \/ c.use_sma /\ c.sma_window <= 0
    \/ c.use_ema /\ c.ema_window < 1
    \/ c.use_rsi /\ c.rsi_window <= 0
    \/ c.use_macd /\ (c.macd_fast < 1 \/ c.macd_slow < 1 \/ c.macd_signal < 1)
    \/ c.use_bb /\ c.bb_window <= 0

EnabledColumns(c) ==
    (IF c.use_sma THEN {"SMA"} ELSE {})
    \cup (IF c.use_ema THEN {"EMA"} ELSE {})
    \cup (IF c.use_rsi THEN {"RSI"} ELSE {})
    \cup (IF c.use_macd THEN {"MACD", "MACD_Signal", "MACD_Hist"} ELSE {})
    \cup (IF c.use_bb THEN {"BB_Upper", "BB_Middle", "BB_Lower"} ELSE {})

\* C9: the table of a run that reached its end holds, beside Close, exactly
\* the columns of the ticked indicators and the Signal column; Signal has
\* one of BUY, SELL, HOLD per price row, and HOLD in every row when RSI is
\* not ticked.
C9_ColumnsOfEnabled ==
    pc = "done" =>
        /\ Columns(df) = {"Close", "Signal"} \cup EnabledColumns(cfg)
        /\ Len(df["Signal"]) = Len(price)
        /\ \A i \in Rows : df["Signal"][i] \in {"BUY", "SELL", "HOLD"}
        /\ ~cfg.use_rsi => \A i \in Rows : df["Signal"][i] = "HOLD"

\* a finished run with RSI and SMA unticked and MACD ticked
C9_Witness ==
    /\ pc = "done"
    /\ ~cfg.use_rsi /\ ~cfg.use_sma /\ cfg.use_macd /\ cfg.use_bb
    /\ Has("MACD") /\ ~Has("SMA") /\ Has("Signal")

\* the number of undefined rows right before row i
RECURSIVE GapBefore(_)
GapBefore(i) == IF i > 1 /\ IsNaN(price[i - 1]) THEN 1 + GapBefore(i - 1) ELSE 0

RECURSIVE FPow(_, _)
FPow(x, k) == IF k = 0 THEN Float(1) ELSE FMul(x, FPow(x, k - 1))

\* C10, as claimed: over a series with undefined entries and a span >= 1,
\* EMA is undefined in exactly the rows where the input is, and the first
\* defined row after an undefined one restarts the EMA from its own value.
C10_ReseededAfterGap ==
    (Has("EMA") /\ cfg.ema_window >= 1) =>
        \A i \in Rows :
            /\ IsNaN(df["EMA"][i]) <=> IsNaN(price[i])
            /\ (i > 1 /\ IsNaN(price[i - 1]) /\ ~IsNaN(price[i])) =>
                   df["EMA"][i] = price[i]

\* C10, amended: over a series with undefined entries and a span >= 1, EMA
\* is undefined in exactly the rows before the first defined entry and
\* starts from that entry's value; in an undefined row after it EMA repeats
\* its previous value; and in a defined row i that follows k undefined rows
\* it is (w * EMA[i-1] + alpha * series[i]) / (w + alpha) with
\* w = (1 - alpha)^(k+1): the past is decayed over the gap, not dropped.
C10_CarriedOverGap ==
    (Has("EMA") /\ cfg.ema_window >= 1) =>
        LET a == Num(2, cfg.ema_window + 1)
            e == df["EMA"]
        IN  \A i \in Rows :
                LET seen  == \E j \in 1..i : ~IsNaN(price[j])
                    first == ~IsNaN(price[i]) /\ \A j \in 1..(i - 1) : IsNaN(price[j])
                    w     == FPow(FSub(Float(1), a), GapBefore(i) + 1)
                IN  /\ IsNaN(e[i]) <=> ~seen
                    /\ first => e[i] = price[i]
                    /\ (seen /\ IsNaN(price[i])) => e[i] = e[i - 1]
                    /\ (~first /\ ~IsNaN(price[i])) =>
                           e[i] = FDiv(FAdd(FMul(w, e[i - 1]), FMul(a, price[i])),
                                       FAdd(w, a))

\* an undefined row between two defined ones, under a span of 2 or more:
\* EMA is defined in the gap and is not the next row's price after it
C10_Witness ==
    /\ Has("EMA") /\ cfg.ema_window >= 2
    /\ \E i \in 2..(MaxLen - 1) :
           /\ ~IsNaN(price[i - 1]) /\ IsNaN(price[i]) /\ ~IsNaN(price[i + 1])
           /\ ~IsNaN(df["EMA"][i])
           /\ df["EMA"][i + 1] # price[i + 1]

====
